---- MODULE Spec2Model ----
(***************************************************************************)
(* Model of the beam report generator (src/main.py): main() reads a table  *)
(* of (x, Shear force, Bending Moment) rows, generate_report() assembles   *)
(* the document section by section and hands it to the LaTeX renderer.     *)
(*                                                                         *)
(* Numbers.  A data value is held as an integer count of 1e-4 units        *)
(* (123456 is 12.3456).  A formatted number is a record                    *)
(* [digits |-> d, val |-> n, nan |-> b] that reads n / 10^d, so "12.35" is *)
(* [digits |-> 2, val |-> 1235, nan |-> FALSE]; "nan" has nan |-> TRUE.    *)
(* A statistic is a record [nan, val], because pandas reductions of an     *)
(* empty column give NaN.  No input value lies in (-0.005, 0), so the      *)
(* "-0.00" rendering of a negative zero is not represented.                *)
(***************************************************************************)
EXTENDS Integers, Sequences, FiniteSets, TLC

\* ------------------------------------------------------------------ bounds
\* longest dataset whose rows are drawn freely from Records
MaxLen == 3
\* longest dataset of the regular family PatternData
MaxRows == 17

\* ------------------------------------------------------------ number model
\* decimal digits carried by a data value, and the unit they define
RawDigits == 2 + 2
Pow10(d) == 10 ^ d
Unit == Pow10(RawDigits)

Abs(v) == IF v < 0 THEN 0 - v ELSE v
Sign(v) == IF v < 0 THEN 0 - 1 ELSE 1

\* what a column reduction returns
Num(v) == [nan |-> FALSE, val |-> v]
NaN == [nan |-> TRUE, val |-> 0]

None == << >>
Some(v) == << v >>

\* ------------------------------------------------------------------ inputs
AllCols == {"x", "Shear force", "Bending Moment"}

Row(x, s, m) ==
  [c \in AllCols |-> IF c = "x" THEN x ELSE IF c = "Shear force" THEN s ELSE m]

PosVals == {0, 5 * Unit, 10 * Unit}
ShearVals == {0 - 10 * Unit, 123456}
MomentVals == {25 * Unit, 123456}

Records == {Row(x, s, m) : x \in PosVals, s \in ShearVals, m \in MomentVals}

\* every dataset of at most MaxLen rows over Records, in any order
ShortData == UNION {[1..n -> Records] : n \in 0..MaxLen}

\* n evenly spaced stations, antisymmetric shear, parabolic moment
PatternData(n) ==
  [i \in 1..n |-> Row((i - 1) * 5000, (n + 1 - 2 * i) * 61728,
                      (i - 1) * (n - i) * 123456)]

LongData == {PatternData(n) : n \in 1..MaxRows}

\* the three-station dataset (0,0,0), (5,10,25), (10,-10,0)
Example ==
  << Row(0, 0, 0), Row(5 * Unit, 10 * Unit, 25 * Unit),
     Row(10 * Unit, 0 - 10 * Unit, 0) >>

Restrict(rows, cols) ==
  [i \in 1..Len(rows) |-> [c \in cols |-> rows[i][c]]]

UnreadableFile == [readable |-> FALSE, cols |-> {}, rows |-> << >>]

Files ==
  {UnreadableFile}
  \cup {[readable |-> TRUE, cols |-> AllCols, rows |-> d] :
          d \in ShortData \cup LongData \cup {Example}}
  \cup {[readable |-> TRUE, cols |-> cs, rows |-> Restrict(d, cs)] :
          cs \in (SUBSET AllCols) \ {AllCols}, d \in {<< >>, Example}}

\* ------------------------------------------------------------- formatting
Text(d, n) == [digits |-> d, val |-> n, nan |-> FALSE]
NanText(d) == [digits |-> d, val |-> 0, nan |-> TRUE]

\* the number a formatted text reads as, back in data units (digits <= 4)
ValueOf(t) == t.val * Pow10(RawDigits - t.digits)

\* magnitude a rounded to d digits, nearest, exact ties to even (printf).
\* A decimal tie is exact only for a binary-representable value such as
\* 0.125; the input sets hold no value that is a tie at 1 or 2 digits.
RoundMag(a, d) ==
  LET q == Pow10(RawDigits - d)
      lo == a \div q
      rem == a % q
  IN  IF 2 * rem > q \/ (2 * rem = q /\ lo % 2 = 1) THEN lo + 1 ELSE lo

\* f"{v:.df}"
Fmt(v, d) == Text(d, Sign(v) * RoundMag(Abs(v), d))

\* f"{s:.df}" of a statistic, which may be NaN
FmtStat(s, d) == IF s.nan THEN NanText(d) ELSE Fmt(s.val, d)

\* least number of digits, from lo up, that writes v exactly
RECURSIVE ShortestDigits(_, _)
ShortestDigits(v, lo) ==
  IF lo >= RawDigits \/ v % Pow10(RawDigits - lo) = 0
    THEN lo
    ELSE ShortestDigits(v, lo + 1)

\* f"{v}": str of a Python int ("10") or the shortest repr of a float
\* ("10.0", "12.3456"), which reads back as exactly v
Repr(v, isInt) ==
  LET d == IF isInt THEN 0 ELSE ShortestDigits(v, 1)
  IN  Text(d, v \div Pow10(RawDigits - d))

\* ----------------------------------------------------------------- pandas
\* beam_df[c]
Col(df, c) == [i \in 1..Len(df.rows) |-> df.rows[i][c]]

\* a column read from whole-number cells is int64, otherwise float64
IsIntCol(s) == \A i \in 1..Len(s) : s[i] % Unit = 0

RECURSIVE FoldMax(_, _, _)
FoldMax(s, i, best) ==
  IF i > Len(s) THEN best
  ELSE FoldMax(s, i + 1, IF s[i] > best THEN s[i] ELSE best)

RECURSIVE FoldMin(_, _, _)
FoldMin(s, i, best) ==
  IF i > Len(s) THEN best
  ELSE FoldMin(s, i + 1, IF s[i] < best THEN s[i] ELSE best)

\* Series.max() / Series.min(): NaN on an empty column
SeriesMax(s) == IF Len(s) = 0 THEN NaN ELSE Num(FoldMax(s, 2, s[1]))
SeriesMin(s) == IF Len(s) = 0 THEN NaN ELSE Num(FoldMin(s, 2, s[1]))

\* Series.abs()
SeriesAbs(s) == [i \in 1..Len(s) |-> Abs(s[i])]

\* a - b on floats
NumSub(a, b) == IF a.nan \/ b.nan THEN NaN ELSE Num(a.val - b.val)

\* beam_df['x'].max() - beam_df['x'].min()
BeamLength_lastfirst(df) ==
  IF Len(df.rows) = 0 THEN NaN
  ELSE Num(df.rows[Len(df.rows)]["x"] - df.rows[1]["x"])

BeamLength(df) == NumSub(SeriesMax(Col(df, "x")), SeriesMin(Col(df, "x")))

RECURSIVE ArgMaxScan_last(_, _, _)
ArgMaxScan_last(s, i, best) ==
  IF i > Len(s) THEN best
  ELSE ArgMaxScan_last(s, i + 1, IF s[i] >= s[best] THEN i ELSE best)

\* argmax scan: a later element replaces the best only if strictly greater
RECURSIVE ArgMaxScan(_, _, _)
ArgMaxScan(s, i, best) ==
  IF i > Len(s) THEN best
  ELSE ArgMaxScan(s, i + 1, IF s[i] > s[best] THEN i ELSE best)

\* Series.idxmax() of a non-empty column: RangeIndex label (0-based)
IdxMax(s) == ArgMaxScan(s, 2, 1) - 1

\* beam_df.loc[label, c]
Loc(df, label, c) == df.rows[label + 1][c]

\* beam_df.iloc[::step]
RECURSIVE ILocStep(_, _)
ILocStep(rows, step) ==
  IF Len(rows) = 0 THEN << >>
  ELSE << rows[1] >> \o ILocStep(SubSeq(rows, step + 1, Len(rows)), step)

\* ------------------------------------------------------------- formatters
\* create_tikz_sfd: one "(x,y)" pair per zipped element, values as given
create_tikz_sfd(x_data, y_data) ==
  [i \in 1..(IF Len(x_data) < Len(y_data) THEN Len(x_data) ELSE Len(y_data))
     |-> << Repr(x_data[i], IsIntCol(x_data)),
            Repr(y_data[i], IsIntCol(y_data)) >>]

create_tikz_bmd_unrounded(x_data, y_data) == create_tikz_sfd(x_data, y_data)

\* create_tikz_bmd: as above with y written to two decimals
create_tikz_bmd(x_data, y_data) ==
  [i \in 1..(IF Len(x_data) < Len(y_data) THEN Len(x_data) ELSE Len(y_data))
     |-> << Repr(x_data[i], IsIntCol(x_data)), Fmt(y_data[i], 2) >>]

\* line 124
TableFullRows == 15
TableStep_lt(n) == IF n < TableFullRows THEN 1 ELSE 2
TableStep(n) == IF n <= TableFullRows THEN 1 ELSE 2

\* rows visited by the loop of create_data_table
TableRows(df) == ILocStep(df.rows, TableStep(Len(df.rows)))

\* the loop body reads all three columns of each visited row
TableRaises(df) == TableRows(df) # << >> /\ ~(AllCols \subseteq df.cols)

\* create_data_table, when it does not raise: one formatted line per row
create_data_table(df) ==
  [k \in 1..Len(TableRows(df)) |->
     << Fmt(TableRows(df)[k]["x"], 1),
        Fmt(TableRows(df)[k]["Shear force"], 2),
        Fmt(TableRows(df)[k]["Bending Moment"], 2) >>]

\* ---------------------------------------------------------------- document
\* a block appended to the document; args is a sequence of lines of texts
Block(kind, args) == [kind |-> kind, args |-> args]

Kinds(d) == [i \in 1..Len(d) |-> d[i].kind]
HasBlock(d, kind) == \E i \in 1..Len(d) : d[i].kind = kind
BlockArgs(d, kind) == d[CHOOSE i \in 1..Len(d) : d[i].kind = kind].args

\* ------------------------------------------------------------------- state
VARIABLES
  pc,                   \* position of the run in main / generate_report
  file,                 \* data/Force.xlsx as found on disk
  imageExists,          \* os.path.exists('images/Beam.png')
  latexOK,              \* whether doc.generate_pdf succeeds
  beam_df,              \* None, or Some(DataFrame) returned by read_beam_data
  out,                  \* lines printed so far
  doc,                  \* blocks appended to the document so far
  beam_length, max_shear, max_moment, max_moment_location,
                        \* locals of generate_report, None until assigned
  tex, pdf              \* artifacts written by generate_pdf

vars == << pc, file, imageExists, latexOK, beam_df, out, doc, beam_length,
           max_shear, max_moment, max_moment_location, tex, pdf >>

env == << file, imageExists, latexOK >>
stats == << beam_length, max_shear, max_moment, max_moment_location >>

\* the DataFrame held by generate_report's parameter beam_df
DF == beam_df[1]
arts == << tex, pdf >>

Init ==
  /\ pc = "main"
  /\ file \in Files
  /\ imageExists \in BOOLEAN
  /\ latexOK \in BOOLEAN
  /\ beam_df = None
  /\ out = << >>
  /\ doc = << >>
  /\ beam_length = None
  /\ max_shear = None
  /\ max_moment = None
  /\ max_moment_location = None
  /\ tex = FALSE
  /\ pdf = FALSE

\* ----------------------------------------------------------------- main()
\* lines 270-276: makedirs, first progress line
MainStart ==
  /\ pc = "main"
  /\ out' = Append(out, "Reading")
  /\ pc' = "read"
  /\ UNCHANGED << env, beam_df, doc, stats, arts >>

ReadBeamData_uncaught ==
  /\ pc = "read"
  /\ IF file.readable
       THEN /\ beam_df' = Some([cols |-> file.cols, rows |-> file.rows])
            /\ out' = out \o << "ReadOK", "Columns" >>
            /\ pc' = "branch"
       ELSE /\ pc' = "crashed"
            /\ UNCHANGED << beam_df, out >>
  /\ UNCHANGED << env, doc, stats, arts >>

\* read_beam_data: any exception of pd.read_excel is caught and None returned
ReadBeamData ==
  /\ pc = "read"
  /\ IF file.readable
       THEN /\ beam_df' = Some([cols |-> file.cols, rows |-> file.rows])
            /\ out' = out \o << "ReadOK", "Columns" >>
            /\ pc' = "branch"
       ELSE /\ beam_df' = None
            /\ out' = Append(out, "ErrorReading")
            /\ pc' = "branch"
  /\ UNCHANGED << env, doc, stats, arts >>

\* line 279: if beam_df is not None
MainBranch ==
  /\ pc = "branch"
  /\ IF beam_df # None
       THEN /\ out' = Append(out, "Generating")
            /\ pc' = "gr_begin"
       ELSE /\ out' = Append(out, "Failed")
            /\ pc' = "done"
  /\ UNCHANGED << env, beam_df, doc, stats, arts >>

\* ------------------------------------------------------ generate_report()
Line(t) == << << t >> >>

\* lines 145-173: Document, preamble, title, contents, section Introduction
GrBegin ==
  /\ pc = "gr_begin"
  /\ doc' = doc \o << Block("maketitle", << >>), Block("tableofcontents", << >>),
                      Block("Introduction", << >>), Block("text", << >>) >>
  /\ pc' = "gr_image"
  /\ UNCHANGED << env, beam_df, out, stats, arts >>

GrImage_strict ==
  /\ pc = "gr_image"
  /\ doc' = IF imageExists THEN Append(doc, Block("image", << >>)) ELSE doc
  /\ pc' = IF imageExists THEN "gr_length" ELSE "crashed"
  /\ UNCHANGED << env, beam_df, out, stats, arts >>

\* lines 175-180: the figure is added only if the image path exists
GrImage ==
  /\ pc = "gr_image"
  /\ doc' = IF imageExists THEN Append(doc, Block("image", << >>)) ELSE doc
  /\ pc' = "gr_length"
  /\ UNCHANGED << env, beam_df, out, stats, arts >>

\* lines 182-189: beam_df['x'] raises KeyError without column x
GrLength ==
  /\ pc = "gr_length"
  /\ IF "x" \in DF.cols
       THEN LET len == BeamLength(DF)
            IN  /\ beam_length' = Some(len)
                /\ doc' = doc \o
                     << Block("beam_length", Line(FmtStat(len, 1))),
                        Block("points", Line(Text(0, Len(DF.rows)))) >>
                /\ pc' = "gr_table"
       ELSE /\ pc' = "crashed"
            /\ UNCHANGED << beam_length, doc >>
  /\ UNCHANGED << env, beam_df, out, max_shear, max_moment,
                  max_moment_location, arts >>

\* lines 191-198: section Analysis Data and the table
GrTable ==
  /\ pc = "gr_table"
  /\ IF TableRaises(DF)
       THEN /\ pc' = "crashed"
            /\ doc' = doc \o << Block("Analysis Data", << >>),
                                Block("text", << >>) >>
       ELSE /\ pc' = "gr_stats"
            /\ doc' = doc \o << Block("Analysis Data", << >>),
                                Block("text", << >>),
                                Block("table", create_data_table(DF)) >>
  /\ UNCHANGED << env, beam_df, out, stats, arts >>

\* lines 200-212: key results; a missing column raises KeyError and
\* idxmax of an empty column raises ValueError
GrStats ==
  /\ pc = "gr_stats"
  /\ IF "Shear force" \notin DF.cols
       THEN /\ pc' = "crashed"
            /\ UNCHANGED << doc, max_shear, max_moment, max_moment_location >>
     ELSE IF "Bending Moment" \notin DF.cols
       THEN /\ pc' = "crashed"
            /\ max_shear' = Some(SeriesMax(SeriesAbs(Col(DF, "Shear force"))))
            /\ UNCHANGED << doc, max_moment, max_moment_location >>
     ELSE IF Len(DF.rows) = 0
       THEN /\ pc' = "crashed"
            /\ max_shear' = Some(SeriesMax(SeriesAbs(Col(DF, "Shear force"))))
            /\ max_moment' = Some(SeriesMax(Col(DF, "Bending Moment")))
            /\ UNCHANGED << doc, max_moment_location >>
     ELSE LET ms == SeriesMax(SeriesAbs(Col(DF, "Shear force")))
              mm == SeriesMax(Col(DF, "Bending Moment"))
              loc == Loc(DF, IdxMax(Col(DF, "Bending Moment")), "x")
          IN  /\ max_shear' = Some(ms)
              /\ max_moment' = Some(mm)
              /\ max_moment_location' = Some(loc)
              /\ doc' = doc \o
                   << Block("max_shear", Line(FmtStat(ms, 2))),
                      Block("max_moment", Line(FmtStat(mm, 2))),
                      Block("max_moment_location", Line(Fmt(loc, 2))) >>
              /\ pc' = "gr_sfd"
  /\ UNCHANGED << env, beam_df, out, beam_length, arts >>

\* lines 214-229: section Structural Analysis Diagrams, subsection SFD
GrSfd ==
  /\ pc = "gr_sfd"
  /\ LET x_data == Col(DF, "x")
         shear_data == Col(DF, "Shear force")
     IN  doc' = doc \o
           << Block("Structural Analysis Diagrams", << >>),
              Block("SFD", << >>),
              Block("sfd", create_tikz_sfd(x_data, shear_data)),
              Block("sfd_caption",
                    << << FmtStat(SeriesMin(shear_data), 2),
                          FmtStat(SeriesMax(shear_data), 2) >> >>) >>
  /\ pc' = "gr_bmd"
  /\ UNCHANGED << env, beam_df, out, stats, arts >>

GrBmd_early ==
  /\ pc = "gr_bmd"
  /\ LET x_data == Col(DF, "x")
         moment_data == Col(DF, "Bending Moment")
     IN  doc' = doc \o
           << Block("BMD", << >>),
              Block("bmd", create_tikz_bmd(x_data, moment_data)),
              Block("bmd_caption",
                    << << FmtStat(SeriesMax(moment_data), 2),
                          Fmt(max_moment_location[1], 2) >> >>) >>
  /\ pc' = "gr_render"
  /\ UNCHANGED << env, beam_df, out, stats, arts >>

\* lines 231-242: subsection BMD
GrBmd ==
  /\ pc = "gr_bmd"
  /\ LET x_data == Col(DF, "x")
         moment_data == Col(DF, "Bending Moment")
     IN  doc' = doc \o
           << Block("BMD", << >>),
              Block("bmd", create_tikz_bmd(x_data, moment_data)),
              Block("bmd_caption",
                    << << FmtStat(SeriesMax(moment_data), 2),
                          Fmt(max_moment_location[1], 2) >> >>) >>
  /\ pc' = "gr_conclusion"
  /\ UNCHANGED << env, beam_df, out, stats, arts >>

\* lines 244-256: section Conclusion
GrConclusion ==
  /\ pc = "gr_conclusion"
  /\ doc' = doc \o << Block("Conclusion", << >>), Block("text", << >>),
                      Block("itemize", << >>) >>
  /\ pc' = "gr_render"
  /\ UNCHANGED << env, beam_df, out, stats, arts >>

\* lines 258-263: generate_pdf writes the .tex (kept, clean_tex=False) and
\* runs the compiler; its exception is caught and reported
GrRender ==
  /\ pc = "gr_render"
  /\ tex' = TRUE
  /\ pdf' = latexOK
  /\ out' = IF latexOK THEN Append(out, "SuccessGenerated")
                       ELSE out \o << "ErrorPDF", "LatexHint" >>
  /\ pc' = "confirm"
  /\ UNCHANGED << env, beam_df, doc, stats >>

\* lines 282-283, after generate_report returns
MainConfirm ==
  /\ pc = "confirm"
  /\ out' = out \o << "Complete", "SavedTo" >>
  /\ pc' = "done"
  /\ UNCHANGED << env, beam_df, doc, stats, arts >>

Next ==
  \/ MainStart
  \/ ReadBeamData
  \/ MainBranch
  \/ GrBegin
  \/ GrImage
  \/ GrLength
  \/ GrTable
  \/ GrStats
  \/ GrSfd
  \/ GrBmd
  \/ GrConclusion
  \/ GrRender
  \/ MainConfirm

Spec == Init /\ [][Next]_vars

\* ================================================================= claims
GrStages == {"gr_begin", "gr_image", "gr_length", "gr_table", "gr_stats",
             "gr_sfd", "gr_bmd", "gr_conclusion", "gr_render"}

HasMsg(m) == \E i \in 1..Len(out) : out[i] = m

SectionNames == << "Introduction", "Analysis Data",
                   "Structural Analysis Diagrams", "Conclusion" >>
IsSection(k) == \E i \in 1..Len(SectionNames) : SectionNames[i] = k
Sections(d) == SelectSeq(Kinds(d), IsSection)

ValidData(f) == f.readable /\ AllCols \subseteq f.cols /\ Len(f.rows) >= 1

StatsDone ==
  /\ beam_length # None
  /\ max_shear # None
  /\ max_moment # None
  /\ max_moment_location # None

\* ---- C1.  When doc.generate_pdf raises, a diagnostic is printed and none
\* of "Report successfully generated", "Report generation complete" and
\* "Output saved to" is ever printed in that run.
C1_NoSuccessAfterRenderFailure ==
  HasMsg("ErrorPDF") =>
    /\ HasMsg("LatexHint")
    /\ ~HasMsg("SuccessGenerated")
    /\ ~HasMsg("Complete")
    /\ ~HasMsg("SavedTo")

\* ---- C2.  With a missing or unreadable input file read_beam_data returns
\* None without raising and main aborts: generate_report is never entered,
\* nothing is assembled or rendered, and after the opening progress line
\* only the failure diagnostics are printed.
C2_LoadFailureAborts ==
  ~file.readable =>
    /\ pc # "crashed"
    /\ pc \notin GrStages \cup {"confirm"}
    /\ beam_df = None
    /\ doc = << >>
    /\ ~tex /\ ~pdf
    /\ StatsDone = FALSE
    /\ \A i \in 1..Len(out) : out[i] \in {"Reading", "ErrorReading", "Failed"}
    /\ pc = "done" => out = << "Reading", "ErrorReading", "Failed" >>

C2_Witness ==
  ~file.readable /\ pc = "done" /\ HasMsg("ErrorReading") /\ HasMsg("Failed")

\* ---- C3.  A readable table that lacks a required column is rejected by
\* the loader: no run ends with an uncaught exception and generate_report
\* never runs on a dataset without all three columns.
C3_MissingColumnRejected ==
  /\ pc # "crashed"
  /\ pc \in GrStages => AllCols \subseteq DF.cols

\* ---- C4.  A well-formed table with zero rows is rejected by the loader:
\* generate_report only ever runs on a dataset of at least one row.
C4_EmptyRejected ==
  (pc \in GrStages /\ AllCols \subseteq DF.cols) => Len(DF.rows) >= 1

\* ---- C5.  The table holds exactly the rows at indices 0, s, 2s, ... of
\* the dataset, in order, with s = 1 for at most 15 rows and s = 2
\* otherwise: n rows when n <= 15 and ceil(n/2) rows when n >= 16.
C5_TableStride ==
  (HasBlock(doc, "table") /\ Len(DF.rows) >= 1) =>
    LET n == Len(DF.rows)
        s == IF n <= 15 THEN 1 ELSE 2
        t == BlockArgs(doc, "table")
    IN  /\ Len(t) = IF n <= 15 THEN n ELSE (n + 1) \div 2
        /\ \A k \in 1..Len(t) :
             LET r == DF.rows[(k - 1) * s + 1]
             IN  t[k] = << Fmt(r["x"], 1), Fmt(r["Shear force"], 2),
                           Fmt(r["Bending Moment"], 2) >>
        /\ n = 15 => Len(t) = 15
        /\ n = 16 => Len(t) = 8

C5_Witness ==
  /\ HasBlock(doc, "table")
  /\ Len(DF.rows) = 16
  /\ Len(BlockArgs(doc, "table")) = 8
  /\ BlockArgs(doc, "table")[8][1] = Fmt(DF.rows[15]["x"], 1)

\* ---- C6.  The reported maximum-moment position is the position of the
\* first record, in sequence order, whose moment equals the maximum moment.
C6_FirstMaxMoment ==
  max_moment_location # None =>
    LET m == Col(DF, "Bending Moment")
        first == CHOOSE i \in 1..Len(m) :
                   /\ \A j \in 1..Len(m) : m[j] <= m[i]
                   /\ \A j \in 1..(i - 1) : m[j] < m[i]
        pos == DF.rows[first]["x"]
    IN  /\ max_moment_location = Some(pos)
        /\ max_moment = Some(Num(m[first]))
        /\ BlockArgs(doc, "max_moment_location") = Line(Fmt(pos, 2))
        /\ HasBlock(doc, "bmd_caption") =>
             BlockArgs(doc, "bmd_caption")[1][2] = Fmt(pos, 2)

C6_Witness ==
  /\ max_moment_location # None
  /\ LET m == Col(DF, "Bending Moment")
     IN  \E i, j \in 1..Len(m) :
           /\ i < j
           /\ m[i] = m[j]
           /\ \A k \in 1..Len(m) : m[k] <= m[i]
           /\ DF.rows[i]["x"] # DF.rows[j]["x"]
           /\ max_moment_location = Some(DF.rows[i]["x"])

\* ---- C7 as stated.  Stages run strictly load, compute, format, assemble,
\* render: nothing is formatted or assembled before every summary
\* statistic is computed, and rendering follows complete assembly.
C7_StrictStageOrder ==
  /\ (HasBlock(doc, "table") \/ HasBlock(doc, "sfd") \/ HasBlock(doc, "bmd"))
       => StatsDone
  /\ doc # << >> => StatsDone
  /\ tex => Sections(doc) = SectionNames

Rank(p) ==
  CASE p = "main" -> 0
    [] p = "read" -> 1
    [] p = "branch" -> 2
    [] p = "gr_begin" -> 3
    [] p = "gr_image" -> 4
    [] p = "gr_length" -> 5
    [] p = "gr_table" -> 6
    [] p = "gr_stats" -> 7
    [] p = "gr_sfd" -> 8
    [] p = "gr_bmd" -> 9
    [] p = "gr_conclusion" -> 10
    [] p = "gr_render" -> 11
    [] p = "confirm" -> 12
    [] OTHER -> 13

\* ---- C7 as amended.  Loading completes before generate_report starts,
\* every step runs at most once and in source order, and rendering happens
\* only after all four sections, the table and both charts are in the
\* document; inside generate_report computing, formatting and assembling
\* are interleaved: the document is begun before any statistic exists, the
\* beam length is computed while the Introduction is assembled, and the
\* table is formatted and appended before the maxima are computed.
C7_InterleavedStageOrder ==
  [][ /\ Rank(pc') > Rank(pc)
      /\ pc' \in GrStages => beam_df' # None
      /\ doc' # << >> => beam_df' # None
      /\ tex' =>
           /\ Sections(doc') = SectionNames
           /\ HasBlock(doc', "table")
           /\ HasBlock(doc', "sfd")
           /\ HasBlock(doc', "bmd")
           /\ StatsDone'
      /\ pc' = "gr_length" => (doc' # << >> /\ beam_length' = None)
      /\ pc' = "gr_stats" =>
           /\ HasBlock(doc', "table")
           /\ beam_length' # None
           /\ max_shear' = None
           /\ max_moment' = None
           /\ max_moment_location' = None
      /\ pc' = "gr_sfd" => (StatsDone' /\ ~HasBlock(doc', "sfd"))
    ]_vars

C7_Witness ==
  /\ pc = "gr_stats"
  /\ HasBlock(doc, "table")
  /\ Len(BlockArgs(doc, "table")) >= 1
  /\ max_shear = None

\* ---- C8.  Each chart has one coordinate pair per record, in dataset
\* order and never downsampled; shear y values are written unrounded and
\* moment y values are rounded to exactly two decimals.
C8_ChartCoordinates ==
  /\ HasBlock(doc, "sfd") =>
       LET c == BlockArgs(doc, "sfd")
       IN  /\ Len(c) = Len(DF.rows)
           /\ \A i \in 1..Len(c) :
                /\ ~c[i][1].nan /\ ~c[i][2].nan
                /\ ValueOf(c[i][1]) = DF.rows[i]["x"]
                /\ ValueOf(c[i][2]) = DF.rows[i]["Shear force"]
                /\ DF.rows[i]["Shear force"] = 123456 =>
                     c[i][2] = Text(4, 123456)
           /\ DF.rows = Example =>
                c = << << Text(0, 0), Text(0, 0) >>,
                       << Text(0, 5), Text(0, 10) >>,
                       << Text(0, 10), Text(0, 0 - 10) >> >>
  /\ HasBlock(doc, "bmd") =>
       LET c == BlockArgs(doc, "bmd")
       IN  /\ Len(c) = Len(DF.rows)
           /\ \A i \in 1..Len(c) :
                /\ ~c[i][1].nan /\ ~c[i][2].nan
                /\ ValueOf(c[i][1]) = DF.rows[i]["x"]
                /\ c[i][2].digits = 2
                /\ 2 * Abs(ValueOf(c[i][2]) - DF.rows[i]["Bending Moment"])
                     <= Pow10(RawDigits - 2)
                /\ DF.rows[i]["Bending Moment"] = 123456 =>
                     c[i][2] = Text(2, 1235)
           /\ DF.rows = Example =>
                c = << << Text(0, 0), Text(2, 0) >>,
                       << Text(0, 5), Text(2, 2500) >>,
                       << Text(0, 10), Text(2, 0) >> >>

C8_Witness ==
  /\ HasBlock(doc, "bmd")
  /\ Len(DF.rows) > 15
  /\ Len(BlockArgs(doc, "table")) < Len(DF.rows)
  /\ Len(BlockArgs(doc, "sfd")) = Len(DF.rows)
  /\ Len(BlockArgs(doc, "bmd")) = Len(DF.rows)
  /\ \E i \in 1..Len(DF.rows) :
       /\ DF.rows[i]["Bending Moment"] % 100 # 0
       /\ DF.rows[i]["Shear force"] % 100 # 0
       /\ BlockArgs(doc, "sfd")[i][2].digits = 4

\* ---- C9.  The beam length used in the report is exactly
\* max(position) - min(position) over all records, hence never negative.
C9_BeamLength ==
  (beam_length # None /\ Len(DF.rows) >= 1) =>
    \E i, j \in 1..Len(DF.rows) :
      /\ \A k \in 1..Len(DF.rows) :
           /\ DF.rows[k]["x"] <= DF.rows[i]["x"]
           /\ DF.rows[k]["x"] >= DF.rows[j]["x"]
      /\ beam_length = Some(Num(DF.rows[i]["x"] - DF.rows[j]["x"]))
      /\ beam_length[1].val >= 0
      /\ BlockArgs(doc, "beam_length") =
           Line(Fmt(DF.rows[i]["x"] - DF.rows[j]["x"], 1))

C9_Witness ==
  /\ beam_length # None
  /\ Len(DF.rows) = 3
  /\ DF.rows[1]["x"] > DF.rows[3]["x"]
  /\ DF.rows[2]["x"] > DF.rows[1]["x"]
  /\ beam_length[1].val = DF.rows[2]["x"] - DF.rows[3]["x"]
  /\ beam_length[1].val > 0

\* ---- C10.  The document holds the image block iff the image path exists
\* when the Introduction is assembled; a missing image is skipped without
\* any error, the four sections still follow in their fixed order and
\* rendering is still attempted.
C10_OptionalImage ==
  /\ pc \in {"main", "read", "branch", "gr_begin", "gr_image"}
       => ~HasBlock(doc, "image")
  /\ (pc \notin {"main", "read", "branch", "gr_begin", "gr_image"}
        /\ doc # << >>) => (HasBlock(doc, "image") <=> imageExists)
  /\ pc = "crashed" => ~ValidData(file)
  /\ \A i \in 1..Len(Sections(doc)) : Sections(doc)[i] = SectionNames[i]
  /\ (pc = "done" /\ ValidData(file)) =>
       /\ tex
       /\ Sections(doc) = SectionNames
       /\ latexOK => out = << "Reading", "ReadOK", "Columns", "Generating",
                              "SuccessGenerated", "Complete", "SavedTo" >>

C10_Witness ==
  /\ ~imageExists
  /\ pc = "done"
  /\ tex
  /\ ~HasBlock(doc, "image")
  /\ Sections(doc) = SectionNames

====
